---------------------------- MODULE Spec2Model ----------------------------
(***************************************************************************)
(* The ge_tutorials Airflow DAG (src/airflow/ge_tutorials_dag.py): five    *)
(* tasks in a linear chain that load two CSV files into a database, run    *)
(* dbt, validate the analytical output with Great Expectations and rename  *)
(* the validated table to its production name.                             *)
(*                                                                         *)
(* Every python callable and bash command of the DAG is a sequence of      *)
(* statements; one action executes one statement of one running task.      *)
(* The database is a set of table records, so that "one table per name" is *)
(* a property of the statements issued and not of the representation.      *)
(* All four objects the DAG names are tables, as its DDL says (drop table, *)
(* alter table): "cascade" removes dependent views and constraints, which  *)
(* are not modelled, and never another table.                              *)
(***************************************************************************)
EXTENDS Integers, Sequences, FiniteSets, TLC

VARIABLES
    csv,          \* file system: data/npi_small.csv, data/state_abbreviations.csv
    db,           \* the database: a set of tables [name, cols, rows]
    runState,     \* per DAG run: none, running, success, failed
    ts,           \* per run and task: the task instance's state
    pc,           \* per run and task: index of the next statement
    df,           \* per run: the loader's local DataFrame
    results,      \* per run: results["success"] of the validation operator
    err,          \* per run and task: the exception that failed the task
    startDb,      \* history: the database when the run was triggered
    validated,    \* history: count_providers_by_state as the suite evaluated it
    atPublish,    \* history: the production table when task_publish started
    lastLoad      \* history: the source tables the last completed load left

vars == <<csv, db, runState, ts, pc, df, results, err,
          startDb, validated, atPublish, lastLoad>>

\* An optional value is a set of at most one element: {} when it is unset.

---------------------------------------------------------------------------
(* Bounds of the model. *)

MaxRows == 1        \* data rows of a CSV file
MaxDerived == 2     \* distinct results dbt can materialize

---------------------------------------------------------------------------
(* Names the DAG fixes. *)

NpiSmall == "npi_small"
StateAbbr == "state_abbreviations"
CountTbl == "count_providers_by_state"
ProdTbl == "prod_count_providers_by_state"
NpiCsv == "data/npi_small.csv"
StateCsv == "data/state_abbreviations.csv"
expectation_suite_name == "count_providers_by_state.critical"

task_load_files_into_db == "task_load_files_into_db"
task_validate_source_data_load == "task_validate_source_data_load"
task_dbt == "task_dbt"
task_validate_analytical_output == "task_validate_analytical_output"
task_publish == "task_publish"

Tasks == {task_load_files_into_db, task_validate_source_data_load, task_dbt,
          task_validate_analytical_output, task_publish}

\* dag_runs of ge_tutorials_dag; schedule_interval=None, so runs are triggered
\* by hand, and nothing in the DAG limits them to one at a time.
Runs == {"run1", "run2"}
SeqRuns == {"run1"}

---------------------------------------------------------------------------
(* CSV files and DataFrames. *)

\* Header rows of the CSV files (no name twice: pandas would rename it).
Headers == {<<"NPI", "Name">>, <<"State">>, <<"NPI", "npi">>}

\* Cell (i, j) of a file holds 10*i + j: every cell is told from every other.
CsvFile(h, n) ==
    [header |-> h,
     rows |-> [i \in 1..n |-> [j \in 1..Len(h) |-> 10 * i + j]]]

CsvFiles == {CsvFile(h, n) : h \in Headers, n \in 0..MaxRows}

\* str.lower() on the column names that occur.
Lower(c) ==
    CASE c = "NPI" -> "npi"
      [] c = "Name" -> "name"
      [] c = "State" -> "state"
      [] OTHER -> c

\* pd.read_csv: the header row becomes the columns, the rest the rows.
ReadCsv(f) == [cols |-> f.header, rows |-> f.rows]

\* Mutant: the rename is not done in place and its result is dropped.
RenameLowerNotInPlace(d) == d

\* column_rename_dict = {c: c.lower()}; df.rename(columns=..., inplace=True)
RenameLower(d) == [d EXCEPT !.cols = [i \in 1..Len(d.cols) |-> Lower(d.cols[i])]]

HasDupes(s) == \E i, j \in 1..Len(s) : i < j /\ s[i] = s[j]

\* Positions of the first occurrence of each column name.
FirstIdx(s) == {i \in 1..Len(s) : \A j \in 1..(i - 1) : s[j] # s[i]}
LastIdxOf(s, c) == CHOOSE i \in 1..Len(s) : s[i] = c /\ \A j \in (i + 1)..Len(s) : s[j] # c

RECURSIVE SetToSortedSeq(_)
SetToSortedSeq(S) ==
    IF S = {} THEN <<>>
    ELSE LET m == CHOOSE x \in S : \A y \in S : x <= y
         IN <<m>> \o SetToSortedSeq(S \ {m})

\* A frame whose column names repeat, as a table with one column per name:
\* each row keeps, for a name, the value of its last column of that name
\* (dict(zip(keys, row)) in pandas' insert).
Collapse(d) ==
    LET keep == SetToSortedSeq(FirstIdx(d.cols))
    IN [cols |-> [k \in 1..Len(keep) |-> d.cols[keep[k]]],
        rows |-> [i \in 1..Len(d.rows) |->
                    [k \in 1..Len(keep) |->
                        d.rows[i][LastIdxOf(d.cols, d.cols[keep[k]])]]]]

---------------------------------------------------------------------------
(* The database server: tables and the DDL statements the DAG issues. *)

Table(n, cols, rows) == [name |-> n, cols |-> cols, rows |-> rows]

TableNamed(d, n) == {t \in d : t.name = n}
Exists(d, n) == TableNamed(d, n) # {}

\* Mutant: the drop has no effect.
DropNothing(d, n) == d

\* drop table if exists n [cascade]
DropTableIfExists(d, n) == d \ TableNamed(d, n)

\* create table n (...); insert into n ...
CreateTable(d, n, cols, rows) == d \cup {Table(n, cols, rows)}

\* Mutant: the table is copied to the new name and the old one kept.
RenameTableCopy(d, from, to) ==
    d \cup {[t EXCEPT !.name = to] : t \in TableNamed(d, from)}

\* alter table from rename to to: needs from, and refuses a name in use.
RenameOk(d, from, to) == Exists(d, from) /\ ~Exists(d, to)
RenameTable(d, from, to) ==
    (d \ TableNamed(d, from)) \cup {[t EXCEPT !.name = to] : t \in TableNamed(d, from)}

\* DataFrame.to_sql(name, if_exists=mode, index=False): "replace" drops the
\* table first, "append" inserts into it.
ToSql(d, n, frame, mode) ==
    IF mode = "append" /\ Exists(d, n)
    THEN {IF t.name = n THEN [t EXCEPT !.rows = t.rows \o frame.rows] ELSE t : t \in d}
    ELSE CreateTable(DropTableIfExists(d, n), n, frame.cols, frame.rows)

\* What dbt materializes as count_providers_by_state: opaque to the DAG.
DerivedCols == <<"state", "count">>
Derived(v) == Table(CountTbl, DerivedCols, <<<<v, v>>>>)

\* Tables left by earlier use of the database, with rows no CSV file holds.
Stale(n) == Table(n, <<"old">>, <<<<0>>>>)

\* The source tables, as a load leaves them.
Src(d) == TableNamed(d, NpiSmall) \cup TableNamed(d, StateAbbr)

---------------------------------------------------------------------------
(* The statements of the DAG's callables and bash commands. *)

Stmt(op, a, b) == [op |-> op, a |-> a, b |-> b]

\* Mutant: the frames are appended to whatever the tables hold.
load_files_into_db_append ==
    << Stmt("connect", "", ""),
       Stmt("read_csv", NpiCsv, ""),
       Stmt("rename_lower", "", ""),
       Stmt("to_sql", NpiSmall, "append"),
       Stmt("read_csv", StateCsv, ""),
       Stmt("to_sql", StateAbbr, "append") >>

\* Mutant: each table is dropped only when its own file is about to be read.
load_files_into_db_drop_late ==
    << Stmt("connect", "", ""),
       Stmt("drop_if_exists", NpiSmall, "cascade"),
       Stmt("read_csv", NpiCsv, ""),
       Stmt("rename_lower", "", ""),
       Stmt("to_sql", NpiSmall, "replace"),
       Stmt("drop_if_exists", StateAbbr, "cascade"),
       Stmt("read_csv", StateCsv, ""),
       Stmt("to_sql", StateAbbr, "replace") >>

load_files_into_db ==
    << Stmt("connect", "", ""),
       Stmt("drop_if_exists", NpiSmall, "cascade"),
       Stmt("drop_if_exists", StateAbbr, "cascade"),
       Stmt("read_csv", NpiCsv, ""),
       Stmt("rename_lower", "", ""),
       Stmt("to_sql", NpiSmall, "replace"),
       Stmt("read_csv", StateCsv, ""),
       Stmt("to_sql", StateAbbr, "replace") >>

\* Mutant: the rename is issued before the drop.
publish_to_prod_rename_first ==
    << Stmt("connect", "", ""),
       Stmt("rename", CountTbl, ProdTbl),
       Stmt("drop_if_exists", ProdTbl, "") >>

\* Mutant: the drop names the table that is to be renamed.
publish_to_prod_drops_source ==
    << Stmt("connect", "", ""),
       Stmt("drop_if_exists", CountTbl, ""),
       Stmt("rename", CountTbl, ProdTbl) >>

publish_to_prod ==
    << Stmt("connect", "", ""),
       Stmt("drop_if_exists", ProdTbl, ""),
       Stmt("rename", CountTbl, ProdTbl) >>

\* Mutant: the verdict is computed and never looked at.
validate_analytical_output_unchecked ==
    << Stmt("get_batch", CountTbl, expectation_suite_name),
       Stmt("run_validation_operator", CountTbl, expectation_suite_name) >>

validate_analytical_output ==
    << Stmt("get_batch", CountTbl, expectation_suite_name),
       Stmt("run_validation_operator", CountTbl, expectation_suite_name),
       Stmt("raise_unless_success", expectation_suite_name, "") >>

task_dbt_command == << Stmt("bash", "dbt run", "") >>

\* Mutant: the placeholder is given the command of task_dbt.
task_validate_source_data_load_runs_dbt == << Stmt("bash", "dbt run", "") >>

task_validate_source_data_load_command == << Stmt("bash", "", "") >>

Program(t) ==
    CASE t = task_load_files_into_db -> load_files_into_db
      [] t = task_validate_source_data_load -> task_validate_source_data_load_command
      [] t = task_dbt -> task_dbt_command
      [] t = task_validate_analytical_output -> validate_analytical_output
      [] t = task_publish -> publish_to_prod

\* Mutant: task_dbt is set downstream of the loader, beside the source
\* validation instead of after it.
UpstreamFanOut(t) ==
    CASE t = task_load_files_into_db -> {}
      [] t = task_validate_source_data_load -> {task_load_files_into_db}
      [] t = task_dbt -> {task_load_files_into_db}
      [] t = task_validate_analytical_output -> {task_dbt}
      [] t = task_publish -> {task_validate_analytical_output}

\* task_load_files_into_db >> task_validate_source_data_load >> task_dbt
\*     >> task_validate_analytical_output >> task_publish
Upstream(t) ==
    CASE t = task_load_files_into_db -> {}
      [] t = task_validate_source_data_load -> {task_load_files_into_db}
      [] t = task_dbt -> {task_validate_source_data_load}
      [] t = task_validate_analytical_output -> {task_dbt}
      [] t = task_publish -> {task_validate_analytical_output}

\* dbt run: exit code 0 after (re)creating count_providers_by_state from the
\* source tables, or a non-zero exit code.
DbtRun(d) ==
    {[code |-> 0, db |-> CreateTable(DropTableIfExists(d, CountTbl),
                                      CountTbl, DerivedCols, <<<<v, v>>>>)] :
        v \in IF Exists(d, NpiSmall) /\ Exists(d, StateAbbr) THEN 1..MaxDerived ELSE {}}
    \cup {[code |-> 1, db |-> d]}

\* BashOperator: bash runs the command; an empty script exits with 0.
BashOutcomes(command, d) ==
    IF command = "" THEN {[code |-> 0, db |-> d]} ELSE DbtRun(d)

\* The exceptions that fail a task.
Error(type, msg) == [type |-> type, msg |-> msg]

\* AirflowException("... in the suite: {0:s}".format(suite))
ValidationError(suite) ==
    Error("AirflowException",
          <<"The analytical output does not meet the expectations in the suite: ", suite>>)

---------------------------------------------------------------------------
(* Task instances. *)

Running(r, t) == runState[r] = "running" /\ ts[r][t] = "running"

At(r, t, op) ==
    /\ Running(r, t)
    /\ pc[r][t] <= Len(Program(t))
    /\ Program(t)[pc[r][t]].op = op

Cur(r, t) == Program(t)[pc[r][t]]

Advance(r, t) ==
    /\ pc' = [pc EXCEPT ![r][t] = @ + 1]
    /\ UNCHANGED <<ts, err>>

\* An exception leaves the callable: the task instance fails (no retries are
\* configured in default_args).
Raise(r, t, e) ==
    /\ ts' = [ts EXCEPT ![r][t] = "failed"]
    /\ err' = [err EXCEPT ![r][t] = {e}]
    /\ UNCHANGED pc

---------------------------------------------------------------------------
(* The scheduler: dag runs and the all_success trigger rule. *)

TerminalStates == {"success", "failed", "upstream_failed"}

\* A dag run is created with every task instance in state none.
TriggerRun(r) ==
    /\ runState[r] # "running"
    /\ runState' = [runState EXCEPT ![r] = "running"]
    /\ ts' = [ts EXCEPT ![r] = [t \in Tasks |-> "none"]]
    /\ pc' = [pc EXCEPT ![r] = [t \in Tasks |-> 0]]
    /\ df' = [df EXCEPT ![r] = {}]
    /\ results' = [results EXCEPT ![r] = {}]
    /\ err' = [err EXCEPT ![r] = [t \in Tasks |-> {}]]
    /\ startDb' = [startDb EXCEPT ![r] = db]
    /\ validated' = [validated EXCEPT ![r] = {}]
    /\ atPublish' = [atPublish EXCEPT ![r] = {}]
    /\ UNCHANGED <<csv, db, lastLoad>>

\* A task instance starts once every upstream task instance has succeeded.
ScheduleTask(r, t) ==
    /\ runState[r] = "running"
    /\ ts[r][t] = "none"
    /\ \A u \in Upstream(t) : ts[r][u] = "success"
    /\ ts' = [ts EXCEPT ![r][t] = "running"]
    /\ pc' = [pc EXCEPT ![r][t] = 1]
    /\ atPublish' = IF t = task_publish
                    THEN [atPublish EXCEPT ![r] = TableNamed(db, ProdTbl)]
                    ELSE atPublish
    /\ UNCHANGED <<csv, db, runState, df, results, err, startDb, validated, lastLoad>>

\* A task instance below a failed one is never run.
MarkUpstreamFailed(r, t) ==
    /\ runState[r] = "running"
    /\ ts[r][t] = "none"
    /\ \E u \in Upstream(t) : ts[r][u] \in {"failed", "upstream_failed"}
    /\ ts' = [ts EXCEPT ![r][t] = "upstream_failed"]
    /\ UNCHANGED <<csv, db, runState, pc, df, results, err,
                   startDb, validated, atPublish, lastLoad>>

\* The callable returned, or the command exited with 0.
TaskSucceed(r, t) ==
    /\ Running(r, t)
    /\ pc[r][t] > Len(Program(t))
    /\ ts' = [ts EXCEPT ![r][t] = "success"]
    /\ lastLoad' = IF t = task_load_files_into_db THEN {Src(db)} ELSE lastLoad
    /\ UNCHANGED <<csv, db, runState, pc, df, results, err,
                   startDb, validated, atPublish>>

\* The dag run ends when no task instance is left to run.
FinishRun(r) ==
    /\ runState[r] = "running"
    /\ \A t \in Tasks : ts[r][t] \in TerminalStates
    /\ runState' = [runState EXCEPT ![r] =
                      IF \A t \in Tasks : ts[r][t] = "success" THEN "success" ELSE "failed"]
    /\ UNCHANGED <<csv, db, ts, pc, df, results, err,
                   startDb, validated, atPublish, lastLoad>>

---------------------------------------------------------------------------
(* One statement of a running task. A statement sent to the database can   *)
(* fail for the server's reasons (connection lost, lock not granted).      *)

OperationalError == Error("OperationalError", <<>>)

\* with engine.connect() as conn
ExecConnect(r, t) ==
    /\ At(r, t, "connect")
    /\ \/ Advance(r, t)
       \/ Raise(r, t, OperationalError)
    /\ UNCHANGED <<csv, db, runState, df, results,
                   startDb, validated, atPublish, lastLoad>>

\* conn.execute("drop table if exists ...")
ExecDropIfExists(r, t) ==
    /\ At(r, t, "drop_if_exists")
    /\ \/ /\ db' = DropTableIfExists(db, Cur(r, t).a)
          /\ Advance(r, t)
       \/ /\ UNCHANGED db
          /\ Raise(r, t, OperationalError)
    /\ UNCHANGED <<csv, runState, df, results,
                   startDb, validated, atPublish, lastLoad>>

\* conn.execute("alter table ... rename to ...")
ExecRename(r, t) ==
    /\ At(r, t, "rename")
    /\ \/ /\ RenameOk(db, Cur(r, t).a, Cur(r, t).b)
          /\ db' = RenameTable(db, Cur(r, t).a, Cur(r, t).b)
          /\ Advance(r, t)
       \/ /\ ~RenameOk(db, Cur(r, t).a, Cur(r, t).b)
          /\ UNCHANGED db
          /\ Raise(r, t, Error("ProgrammingError", <<Cur(r, t).a, Cur(r, t).b>>))
       \/ /\ UNCHANGED db
          /\ Raise(r, t, OperationalError)
    /\ UNCHANGED <<csv, runState, df, results,
                   startDb, validated, atPublish, lastLoad>>

\* pd.read_csv(os.path.join(GE_TUTORIAL_PROJECT_PATH, ...))
ExecReadCsv(r, t) ==
    /\ At(r, t, "read_csv")
    /\ \/ /\ csv[Cur(r, t).a] # {}
          /\ df' = [df EXCEPT ![r] = {ReadCsv(f) : f \in csv[Cur(r, t).a]}]
          /\ Advance(r, t)
       \/ /\ csv[Cur(r, t).a] = {}
          /\ UNCHANGED df
          /\ Raise(r, t, Error("FileNotFoundError", <<Cur(r, t).a>>))
    /\ UNCHANGED <<csv, db, runState, results,
                   startDb, validated, atPublish, lastLoad>>

\* df_npi_small.rename(columns=column_rename_dict, inplace=True)
ExecRenameLower(r, t) ==
    /\ At(r, t, "rename_lower")
    /\ df' = [df EXCEPT ![r] = {RenameLower(d) : d \in df[r]}]
    /\ Advance(r, t)
    /\ UNCHANGED <<csv, db, runState, results,
                   startDb, validated, atPublish, lastLoad>>

\* df.to_sql(name, engine, if_exists='replace', index=False). A frame whose
\* column names repeat cannot become a table as it is: depending on the
\* SQLAlchemy in use the statement is refused, or one column per name is kept.
ExecToSql(r, t) ==
    /\ At(r, t, "to_sql")
    /\ \E d \in df[r] :
          \/ /\ ~HasDupes(d.cols)
             /\ db' = ToSql(db, Cur(r, t).a, d, Cur(r, t).b)
             /\ Advance(r, t)
          \/ /\ HasDupes(d.cols)
             /\ db' = ToSql(db, Cur(r, t).a, Collapse(d), Cur(r, t).b)
             /\ Advance(r, t)
          \/ /\ HasDupes(d.cols)
             /\ db' = IF Cur(r, t).b = "replace"
                      THEN DropTableIfExists(db, Cur(r, t).a) ELSE db
             /\ Raise(r, t, Error("ProgrammingError", <<Cur(r, t).a>>))
          \/ /\ UNCHANGED db
             /\ Raise(r, t, OperationalError)
    /\ UNCHANGED <<csv, runState, df, results,
                   startDb, validated, atPublish, lastLoad>>

\* batch = context.get_batch(batch_kwargs, expectation_suite_name)
ExecGetBatch(r, t) ==
    /\ At(r, t, "get_batch")
    /\ \/ /\ Exists(db, Cur(r, t).a)
          /\ Advance(r, t)
       \/ /\ ~Exists(db, Cur(r, t).a)
          /\ Raise(r, t, Error("ProgrammingError", <<Cur(r, t).a>>))
       \/ Raise(r, t, OperationalError)
    /\ UNCHANGED <<csv, db, runState, df, results,
                   startDb, validated, atPublish, lastLoad>>

\* results = context.run_validation_operator("action_list_operator", [batch], run_id)
\* What the suite expects is authored outside the DAG: either verdict can come.
ExecRunValidation(r, t) ==
    /\ At(r, t, "run_validation_operator")
    /\ \/ /\ Exists(db, Cur(r, t).a)
          /\ \E success \in BOOLEAN : results' = [results EXCEPT ![r] = {success}]
          /\ validated' = [validated EXCEPT ![r] = TableNamed(db, Cur(r, t).a)]
          /\ Advance(r, t)
       \/ /\ ~Exists(db, Cur(r, t).a)
          /\ UNCHANGED <<results, validated>>
          /\ Raise(r, t, Error("ProgrammingError", <<Cur(r, t).a>>))
       \/ /\ UNCHANGED <<results, validated>>
          /\ Raise(r, t, OperationalError)
    /\ UNCHANGED <<csv, db, runState, df, startDb, atPublish, lastLoad>>

\* if not results["success"]: raise AirflowException(...)
ExecRaiseUnlessSuccess(r, t) ==
    /\ At(r, t, "raise_unless_success")
    /\ \/ /\ results[r] = {TRUE}
          /\ Advance(r, t)
       \/ /\ results[r] # {TRUE}
          /\ Raise(r, t, ValidationError(Cur(r, t).a))
    /\ UNCHANGED <<csv, db, runState, df, results,
                   startDb, validated, atPublish, lastLoad>>

\* BashOperator(bash_command=...)
ExecBash(r, t) ==
    /\ At(r, t, "bash")
    /\ \E o \in BashOutcomes(Cur(r, t).a, db) :
          /\ db' = o.db
          /\ \/ /\ o.code = 0
                /\ Advance(r, t)
             \/ /\ o.code # 0
                /\ Raise(r, t, Error("AirflowException", <<"Bash command failed">>))
    /\ UNCHANGED <<csv, runState, df, results,
                   startDb, validated, atPublish, lastLoad>>

---------------------------------------------------------------------------
(* Specifications. *)

InitRuns ==
    /\ runState = [r \in Runs |-> "none"]
    /\ ts = [r \in Runs |-> [t \in Tasks |-> "none"]]
    /\ pc = [r \in Runs |-> [t \in Tasks |-> 0]]
    /\ df = [r \in Runs |-> {}]
    /\ results = [r \in Runs |-> {}]
    /\ err = [r \in Runs |-> [t \in Tasks |-> {}]]
    /\ startDb = [r \in Runs |-> {}]
    /\ validated = [r \in Runs |-> {}]
    /\ atPublish = [r \in Runs |-> {}]
    /\ lastLoad = {}

\* Any CSV file may be present or missing; the database may hold tables of
\* earlier use under any of the four names.
Init ==
    /\ csv \in [{NpiCsv, StateCsv} -> {{}} \cup {{f} : f \in CsvFiles}]
    /\ db \in SUBSET {Stale(n) : n \in {NpiSmall, StateAbbr, CountTbl, ProdTbl}}
    /\ InitRuns

RunStep(r) ==
    \/ FinishRun(r)
    \/ \E t \in Tasks :
          \/ ScheduleTask(r, t)
          \/ MarkUpstreamFailed(r, t)
          \/ TaskSucceed(r, t)
          \/ ExecConnect(r, t)
          \/ ExecDropIfExists(r, t)
          \/ ExecRename(r, t)
          \/ ExecReadCsv(r, t)
          \/ ExecRenameLower(r, t)
          \/ ExecToSql(r, t)
          \/ ExecGetBatch(r, t)
          \/ ExecRunValidation(r, t)
          \/ ExecRaiseUnlessSuccess(r, t)
          \/ ExecBash(r, t)

\* One dag run at a time, any number of them in succession: the exclusive
\* access the DAG assumes.
Next == \E r \in SeqRuns : TriggerRun(r) \/ RunStep(r)

Spec == Init /\ [][Next]_vars

\* Two dag runs triggered independently of each other, against one database.
\* The CSV files play no part in how the runs interfere: they are fixed.
InitConc ==
    /\ csv = [f \in {NpiCsv, StateCsv} |-> {CsvFile(<<"State">>, MaxRows)}]
    /\ db \in SUBSET {Stale(ProdTbl)}
    /\ InitRuns

TriggerFirstRun(r) ==
    /\ runState[r] = "none"
    /\ TriggerRun(r)

NextConc == \E r \in Runs : TriggerFirstRun(r) \/ RunStep(r)

SpecConc == InitConc /\ [][NextConc]_vars

---------------------------------------------------------------------------
(* Properties. *)

\* The steps in the order the pipeline is documented to take them.
PipelineOrder ==
    <<task_load_files_into_db, task_validate_source_data_load, task_dbt,
      task_validate_analytical_output, task_publish>>

NeverRan(r, t) == ts[r][t] \in {"none", "upstream_failed"} /\ pc[r][t] = 0

Started(r, t) == ts[r][t] \in {"running", "success", "failed"}

NamesSuite(e) == \E i \in 1..Len(e.msg) : e.msg[i] = expectation_suite_name

Content(tables) == {<<t.cols, t.rows>> : t \in tables}

\* C1: in a run where the validation operator reports success = false, the
\* output-validation task does not succeed and, once it has ended, has failed
\* with an exception naming the suite; task_publish never executes; and the
\* production table is, up to and at the end of the run, the one the run
\* started with.
C1_FailedValidationHalts ==
    \A r \in Runs :
        results[r] = {FALSE} =>
            /\ ts[r][task_validate_analytical_output] \in {"running", "failed"}
            /\ ts[r][task_validate_analytical_output] = "failed" =>
                  \E e \in err[r][task_validate_analytical_output] :
                      e.type = "AirflowException" /\ NamesSuite(e)
            /\ NeverRan(r, task_publish)
            /\ runState[r] # "success"
            /\ TableNamed(db, ProdTbl) = TableNamed(startDb[r], ProdTbl)

C1_Witness ==
    \E r \in Runs :
        /\ results[r] = {FALSE}
        /\ runState[r] = "failed"
        /\ ts[r][task_publish] = "upstream_failed"
        /\ Exists(db, ProdTbl)

\* Order, exclusion and halting, in every state of a run.
C2_OrderInv ==
    \A r \in Runs :
        /\ \A i, j \in 1..Len(PipelineOrder) :
              (i < j /\ Started(r, PipelineOrder[j])) => ts[r][PipelineOrder[i]] = "success"
        /\ Cardinality({t \in Tasks : ts[r][t] = "running"}) <= 1
        /\ \A i, j \in 1..Len(PipelineOrder) :
              (i < j /\ ts[r][PipelineOrder[i]] = "failed") => NeverRan(r, PipelineOrder[j])

\* A failed step is not run again.
C2_NoRetry ==
    \A r \in Runs : \A t \in Tasks :
        (ts[r][t] = "failed" /\ runState[r] = "running") => ts'[r][t] = "failed"

\* C2: within a run a step has started only if every step before it in the
\* pipeline order has succeeded; at most one step is executing; once a step
\* has failed no later step ever executes; and a failed step stays failed
\* for the rest of the run (no retry).
C2_StrictSequence == []C2_OrderInv /\ [][C2_NoRetry]_vars

C2_Witness ==
    \E r \in Runs :
        /\ runState[r] = "failed"
        /\ ts[r][task_load_files_into_db] = "success"
        /\ ts[r][task_validate_source_data_load] = "success"
        /\ ts[r][task_dbt] = "failed"
        /\ ts[r][task_validate_analytical_output] = "upstream_failed"
        /\ ts[r][task_publish] = "upstream_failed"

\* C3: once the validation operator has reported success = true and
\* task_publish has completed, exactly one table is named
\* prod_count_providers_by_state, its columns and rows are those
\* count_providers_by_state had when the suite evaluated it, and no table is
\* named count_providers_by_state.
C3_PublishedIsValidated ==
    \A r \in Runs :
        (results[r] = {TRUE} /\ ts[r][task_publish] = "success") =>
            /\ Cardinality(TableNamed(db, ProdTbl)) = 1
            /\ Cardinality(validated[r]) = 1
            /\ Content(TableNamed(db, ProdTbl)) = Content(validated[r])
            /\ ~Exists(db, CountTbl)

C3_Witness ==
    \E r \in Runs :
        /\ results[r] = {TRUE}
        /\ ts[r][task_publish] = "success"
        /\ atPublish[r] # {}
        /\ Content(atPublish[r]) # Content(TableNamed(db, ProdTbl))

\* C4: at most one table is named prod_count_providers_by_state in every
\* reachable state; once task_publish has executed its drop and before its
\* rename no table has that name while count_providers_by_state is still
\* there; and when task_publish has completed exactly one table has it.
C4_OneProductionTable ==
    /\ Cardinality(TableNamed(db, ProdTbl)) <= 1
    /\ \A r \in Runs :
          /\ (Running(r, task_publish) /\ pc[r][task_publish] = 3) =>
                (~Exists(db, ProdTbl) /\ Exists(db, CountTbl))
          /\ ts[r][task_publish] = "success" =>
                Cardinality(TableNamed(db, ProdTbl)) = 1

C4_Witness ==
    \E r \in Runs :
        /\ ts[r][task_publish] = "success"
        /\ atPublish[r] # {}
        /\ Cardinality(TableNamed(db, ProdTbl)) = 1

\* What a load has to leave for a CSV file.
ExpectedNpi(f) ==
    Table(NpiSmall, [i \in 1..Len(f.header) |-> Lower(f.header[i])], f.rows)

ExpectedState(f) == Table(StateAbbr, f.header, f.rows)

\* A valid npi_small.csv: its column names stay distinct in lower case.
ValidNpiCsv(f) == ~HasDupes([i \in 1..Len(f.header) |-> Lower(f.header[i])])

\* C5: once the loader has completed, both files were there, the only table
\* named state_abbreviations has the file's header as columns, unchanged, and
\* the file's data rows as rows, and, for a valid npi_small.csv, the only
\* table named npi_small has the header in lower case as columns and the
\* file's data rows as rows; nothing of an earlier table is left.
C5_LoadIsFullReplace ==
    \A r \in Runs :
        ts[r][task_load_files_into_db] = "success" =>
            /\ csv[NpiCsv] # {} /\ csv[StateCsv] # {}
            /\ \A f \in csv[StateCsv] : TableNamed(db, StateAbbr) = {ExpectedState(f)}
            /\ \A f \in csv[NpiCsv] :
                  ValidNpiCsv(f) => TableNamed(db, NpiSmall) = {ExpectedNpi(f)}

C5_Witness ==
    \E r \in Runs :
        /\ ts[r][task_load_files_into_db] = "success"
        /\ csv[NpiCsv] = {CsvFile(<<"NPI", "Name">>, MaxRows)}
        /\ csv[StateCsv] = {CsvFile(<<"State">>, MaxRows)}
        /\ MaxRows >= 1
        /\ Stale(NpiSmall) \in startDb[r]
        /\ Stale(StateAbbr) \in startDb[r]

\* C6: with the CSV files unchanged, every load that completes after a
\* completed load leaves the source tables exactly as that one left them.
C6_LoadIdempotent == [][lastLoad # {} => lastLoad' = lastLoad]_vars

\* A second completed load: the production table was published by an earlier
\* run, whose load had completed, and this run's load has completed too.
C6_Witness ==
    \E r \in Runs :
        /\ ts[r][task_load_files_into_db] = "success"
        /\ ts[r][task_publish] = "none"
        /\ \E v \in 1..MaxDerived : Content(TableNamed(db, ProdTbl)) = Content({Derived(v)})
        /\ \E t \in TableNamed(db, NpiSmall) : Len(t.rows) >= 1
        /\ lastLoad = {Src(db)}

\* Between the loader's completion and the start of task_dbt, which is when
\* the source validation runs.
InGate(r) ==
    /\ runState[r] = "running"
    /\ ts[r][task_load_files_into_db] = "success"
    /\ ts[r][task_dbt] = "none"

\* C7: the source validation never fails, and no step taken from the
\* loader's completion to the start of task_dbt changes the database.
C7_SourceValidationNoOp ==
    /\ [](\A r \in Runs : /\ ts[r][task_validate_source_data_load] # "failed"
                           /\ err[r][task_validate_source_data_load] = {})
    /\ [][\A r \in Runs : InGate(r) => db' = db]_vars

C7_Witness ==
    \E r \in Runs :
        /\ ts[r][task_validate_source_data_load] = "success"
        /\ ts[r][task_dbt] = "running"
        /\ db = {t \in db : t.name \in {NpiSmall, StateAbbr}} \cup {Stale(CountTbl), Stale(ProdTbl)}
        /\ Exists(db, NpiSmall) /\ Exists(db, StateAbbr)

FailedAt(r, t, op) ==
    /\ ts[r][t] = "failed"
    /\ pc[r][t] \in 1..Len(Program(t))
    /\ Program(t)[pc[r][t]].op = op

\* C8: when task_publish has failed at its rename, no table is named
\* prod_count_providers_by_state, whatever held the name before, and the run
\* does not succeed.
C8_DropIsNotRolledBack ==
    \A r \in Runs :
        FailedAt(r, task_publish, "rename") =>
            /\ ~Exists(db, ProdTbl)
            /\ runState[r] # "success"

C8_Witness ==
    \E r \in Runs :
        /\ FailedAt(r, task_publish, "rename")
        /\ atPublish[r] # {}
        /\ runState[r] = "failed"
        /\ ~Exists(db, ProdTbl)

RenameRefused(r) ==
    /\ FailedAt(r, task_publish, "rename")
    /\ \E e \in err[r][task_publish] : e.type = "ProgrammingError"

\* C9: with two runs on one database, the database refuses the rename of a
\* run's task_publish only after that run's validation succeeded and the other
\* run's task_publish has executed its own rename.
C9_RenameRefusedByOtherRun ==
    \A r \in Runs :
        RenameRefused(r) =>
            /\ results[r] = {TRUE}
            /\ \E o \in Runs \ {r} : pc[o][task_publish] = Len(publish_to_prod) + 1

\* Both corruptions at once: one run's rename was refused although its
\* validation had succeeded, and the other run published rows it had not
\* validated.
C9_Witness ==
    \E r \in Runs : \E o \in Runs \ {r} :
        /\ RenameRefused(r)
        /\ results[r] = {TRUE}
        /\ ts[o][task_publish] = "success"
        /\ Exists(db, ProdTbl)
        /\ Content(TableNamed(db, ProdTbl)) # Content(validated[o])

FileNotFound(r, file) ==
    /\ ts[r][task_load_files_into_db] = "failed"
    /\ err[r][task_load_files_into_db] = {Error("FileNotFoundError", <<file>>)}

LaterStepsNeverRan(r) ==
    \A t \in Tasks \ {task_load_files_into_db} : NeverRan(r, t)

\* C10: the loader reads its first file only with both source tables gone;
\* failed for a missing npi_small.csv it leaves neither table; failed for a
\* missing state_abbreviations.csv it leaves npi_small as loaded from its file
\* and no state_abbreviations; the earlier tables are in neither case there
\* any more, and no later step runs.
C10_LoaderFailureLeaves ==
    \A r \in Runs :
        /\ (At(r, task_load_files_into_db, "read_csv") /\ df[r] = {}) =>
              (~Exists(db, NpiSmall) /\ ~Exists(db, StateAbbr))
        /\ FileNotFound(r, NpiCsv) =>
              /\ ~Exists(db, NpiSmall) /\ ~Exists(db, StateAbbr)
              /\ LaterStepsNeverRan(r)
              /\ runState[r] # "success"
        /\ FileNotFound(r, StateCsv) =>
              /\ Cardinality(TableNamed(db, NpiSmall)) = 1
              /\ Stale(NpiSmall) \notin db
              /\ \A f \in csv[NpiCsv] :
                    ValidNpiCsv(f) => TableNamed(db, NpiSmall) = {ExpectedNpi(f)}
              /\ ~Exists(db, StateAbbr)
              /\ LaterStepsNeverRan(r)
              /\ runState[r] # "success"

C10_Witness ==
    \E r \in Runs :
        /\ FileNotFound(r, StateCsv)
        /\ runState[r] = "failed"
        /\ Stale(NpiSmall) \in startDb[r]
        /\ Stale(StateAbbr) \in startDb[r]
        /\ csv[NpiCsv] = {CsvFile(<<"NPI", "Name">>, MaxRows)}
=============================================================================
